---- MODULE Spec2Model ----
(***************************************************************************)
(* Model of the report-generation workflow of big_agent                    *)
(* (complete_agent_flow_rule.py, workflow_state.py, agents/*.py).          *)
(*                                                                         *)
(* The workflow is a LangGraph state machine: planning_node is the entry   *)
(* point, _route_from_planning chooses the next node, every worker node    *)
(* returns to planning_node and report_finalizer leads to END.  The        *)
(* variable `state` is the IntegratedWorkflowState record handed from node *)
(* to node, `node` is the node that runs next.  The Decision Oracle (the   *)
(* language model behind PlanningAgent), the outline generator's language  *)
(* model and the Knowledge Engine are external: their answers are chosen   *)
(* nondeterministically.                                                   *)
(*                                                                         *)
(* Left out of `state`: the fields that no node and no routing function    *)
(* reads back (messages, plan_history, last_decision, next_route,          *)
(* timestamps, session_id, api_result, metrics_cache, the raw              *)
(* question/industry/data_set).  The run is in the default calculation     *)
(* mode of run_workflow (both use_*_engine_only flags false).              *)
(***************************************************************************)
EXTENDS Integers, Sequences, FiniteSets, TLC

VARIABLES
    state,            \* the IntegratedWorkflowState record
    node,             \* the node LangGraph runs next ("END" when the run is over)
    last_node,        \* history: the node that ran last
    planning_runs,    \* history: number of _planning_node executions
    dispatched,       \* history: per metric, calls of calculate_metrics (saturating)
    engine_failures,  \* history: per metric, failed computations (saturating)
    late_dispatch,    \* history: metrics dispatched after max_retry failures
    available_knowledge,
                      \* the Knowledge Engine catalog as the agents loaded it
    routed,           \* results of the routing functions and of the default
                      \* decision of plan_next_action (SpecRouter)
    generator,        \* the OutlineGeneratorAgent at work: the language
                      \* model's outline and what generate_outline has made
                      \* of it so far (SpecOutline)
    flow              \* one CompleteAgentFlow instance serving several
                      \* run_workflow calls: the state and position of each
                      \* run, and the call log of the shared rules engine
                      \* agent (SpecSessions)

vars == <<state, node, last_node, planning_runs, dispatched, engine_failures,
          late_dispatch, available_knowledge, routed, generator, flow>>

(***************************************************************************)
(* Bounds of the model and constants of the program.                       *)
(***************************************************************************)
\* how many times the except paths of the nodes may be taken in one run
MaxErrors == 1

\* _route_from_planning: `if state['planning_step'] > 30`
StepCeiling == 30

\* planning_agent.py: max_retry = 3
max_retry == 3

\* plan_next_action: valid_pending_ids[:5]
FallbackBatchSize == 5

\* metric ids of the outlines of a run, and one id no outline holds (a
\* placeholder id made up by the language model)
MetricIds == {"m1", "m2"}
Placeholder == "placeholder"

\* result payloads of the Knowledge Engine: the JSON payloads of well-formed
\* bodies, and the text of a body that is not JSON
Results == {"r1"}
RawText == "raw text"
TraditionalResult == "traditional"
DataMissing == "data missing"

None == <<>>
EmptyDict == [k \in {} |-> "r1"]

(***************************************************************************)
(* Plain list and dict helpers (Python semantics).                         *)
(***************************************************************************)
Elems(s) == {s[i] : i \in 1..Len(s)}

\* list.remove(x) guarded by `if x in list`: drops the first occurrence
RemoveFirst(s, x) ==
    IF x \notin Elems(s) THEN s
    ELSE LET i == CHOOSE j \in 1..Len(s) : s[j] = x /\ \A k \in 1..(j-1) : s[k] # x
         IN  SubSeq(s, 1, i-1) \o SubSeq(s, i+1, Len(s))

\* s[:n]
Take(s, n) == SubSeq(s, 1, IF Len(s) < n THEN Len(s) ELSE n)

\* [f(x) for x in s if P(x)]
RECURSIVE FilterSeq(_, _)
FilterSeq(s, keep) ==
    IF s = <<>> THEN <<>>
    ELSE (IF Head(s) \in keep THEN <<Head(s)>> ELSE <<>>) \o FilterSeq(Tail(s), keep)

\* dict.get(k, default)
DictGet(d, k, default) == IF k \in DOMAIN d THEN d[k] ELSE default

\* dict[k] = v
DictSet(d, k, v) == [x \in (DOMAIN d) \cup {k} |-> IF x = k THEN v ELSE d[x]]

SatInc(n) == IF n > max_retry THEN n ELSE n + 1

(***************************************************************************)
(* workflow_state.py                                                       *)
(***************************************************************************)
MetricRequirement(id) == [metric_id |-> id]

ReportSection(sid, needed) == [section_id |-> sid, metrics_needed |-> needed]

ReportOutline(sections, metrics) == [sections |-> sections, global_metrics |-> metrics]

MetricIdsOf(reqs) == [i \in 1..Len(reqs) |-> reqs[i].metric_id]

create_initial_integrated_state ==
    [ planning_step |-> 0,
      outline_draft |-> None,
      outline_version |-> 0,
      outline_ready |-> FALSE,
      metrics_requirements |-> <<>>,
      computed_metrics |-> EmptyDict,
      pending_metric_ids |-> <<>>,
      failed_metric_attempts |-> EmptyDict,
      calculation_results |-> None,
      report_draft |-> None,
      is_complete |-> FALSE,
      completeness_score |-> [num |-> 0, den |-> 1],
      errors |-> <<>>,
      use_rules_engine_only |-> FALSE,
      use_traditional_engine_only |-> FALSE ]

\* computed / required if required > 0 else 0, kept as a fraction
Rate(computed, required) ==
    IF required > 0 THEN [num |-> computed, den |-> required]
    ELSE [num |-> 0, den |-> 1]

\* r < p/q
RateLt(r, p, q) == r.num * q < p * r.den

\* r > p/q
RateGt(r, p, q) == r.num * q > p * r.den

get_calculation_progress(st) ==
    LET required == Len(st.metrics_requirements)
        computed == Cardinality(DOMAIN st.computed_metrics)
    IN  [ required_count |-> required,
          computed_count |-> computed,
          pending_count |-> Len(st.pending_metric_ids),
          coverage_rate |-> Rate(computed, required) ]

\* update_state_with_outline_generation without the version increment
OutlineGenerationKeepsVersion(st, outline) ==
    [st EXCEPT !.outline_draft = <<outline>>,
               !.outline_ready = TRUE,
               !.metrics_requirements = outline.global_metrics,
               !.pending_metric_ids = MetricIdsOf(outline.global_metrics)]

update_state_with_outline_generation(st, outline) ==
    [st EXCEPT !.outline_draft = <<outline>>,
               !.outline_version = @ + 1,
               !.outline_ready = TRUE,
               !.metrics_requirements = outline.global_metrics,
               !.pending_metric_ids = MetricIdsOf(outline.global_metrics)]

update_state_with_planning_decision(st, decision) ==
    [st EXCEPT !.planning_step = @ + 1,
               !.pending_metric_ids =
                   IF decision.metrics_to_compute # <<>>
                   THEN decision.metrics_to_compute ELSE @]

finalize_state_with_report(st, final_report) ==
    LET new_state == [st EXCEPT !.report_draft = <<final_report>>,
                                !.is_complete = TRUE]
    IN  [new_state EXCEPT !.completeness_score =
                              get_calculation_progress(new_state).coverage_rate]

(***************************************************************************)
(* The Knowledge Engine catalog (getKnowledgeMeta), loaded by the          *)
(* constructors of OutlineGeneratorAgent and                               *)
(* RulesEngineMetricCalculationAgent.                                      *)
(***************************************************************************)
\* the catalog the engine serves: one entry per metric id
KnowledgeMeta == <<[id |-> "m1"], [id |-> "m2"]>>

\* the list of entries when the request is answered, [] when the engine is
\* unreachable or answers with an error (every exception is caught)
_load_available_knowledge(reachable) ==
    IF reachable THEN KnowledgeMeta ELSE <<>>

(***************************************************************************)
(* agents/planning_agent.py                                                *)
(***************************************************************************)
PlanningDecision(decision, metrics) ==
    [decision |-> decision, metrics_to_compute |-> metrics]

Decisions == {"generate_outline", "compute_metrics", "finalize_report",
              "clarify_requirements"}

\* the metrics_to_compute lists the language model answers with: none, known
\* ids, a repeated id, a placeholder id
OracleBatches ==
    {<<>>, <<"m1">>, <<"m2">>, <<"m1", "m2">>, <<"m1", "m1">>, <<Placeholder>>}

\* What one call of plan_next_action meets:
\*   construct_error  PlanningAgent(api_key) raises (outside the try)
\*   invoke_error     planner.ainvoke raises inside make_decision
\*   parse_error      the answer holds no JSON object or fails validation
\*   parsed           the answer is a PlanningDecision: any tag, any id list
OracleResponses ==
    {[kind |-> k, decision |-> "generate_outline", metrics_to_compute |-> <<>>] :
        k \in {"construct_error", "invoke_error", "parse_error"}}
    \cup {[kind |-> "parsed", decision |-> d, metrics_to_compute |-> b] :
            d \in Decisions, b \in OracleBatches}

\* the status builder of PlanningAgent: the numbers put into the prompt
_build_status_context(st) ==
    LET required_count == Len(st.metrics_requirements)
        computed_count == Cardinality(DOMAIN st.computed_metrics)
        pending_ids == st.pending_metric_ids
        filtered_pending_ids ==
            FilterSeq(pending_ids,
                      {mid \in Elems(pending_ids) :
                          DictGet(st.failed_metric_attempts, mid, 0) < max_retry})
    IN  [ required_count |-> required_count,
          computed_count |-> computed_count,
          coverage |-> Rate(computed_count, required_count),
          pending_count |-> Len(pending_ids),
          filtered_pending_ids |-> filtered_pending_ids ]

analyze_current_state(st) ==
    LET required_ids == MetricIdsOf(st.metrics_requirements)
        computed_ids == DOMAIN st.computed_metrics
        pending_ids == FilterSeq(required_ids, Elems(required_ids) \ computed_ids)
        valid_pending_ids ==
            FilterSeq(pending_ids,
                      {mid \in Elems(pending_ids) :
                          DictGet(st.failed_metric_attempts, mid, 0) < max_retry})
    IN  [ has_outline |-> st.outline_draft # None,
          required_count |-> Len(required_ids),
          computed_count |-> Cardinality(computed_ids),
          coverage |-> Rate(Cardinality(computed_ids), Len(required_ids)),
          pending_ids |-> pending_ids,
          valid_pending_ids |-> valid_pending_ids ]

\* make_decision: the parsed answer, or the default decision on a parse failure
make_decision(resp) ==
    IF resp.kind = "parse_error"
    THEN PlanningDecision("generate_outline", <<>>)
    ELSE PlanningDecision(resp.decision, resp.metrics_to_compute)

\* the default decision of plan_next_action's except branch
default_decision(st) ==
    LET state_analysis == analyze_current_state(st)
    IN  IF ~state_analysis.has_outline
        THEN PlanningDecision("generate_outline", <<>>)
        ELSE IF RateLt(state_analysis.coverage, 8, 10)
                /\ state_analysis.valid_pending_ids # <<>>
        THEN PlanningDecision("compute_metrics",
                 Take(state_analysis.valid_pending_ids, FallbackBatchSize))
        ELSE PlanningDecision("finalize_report", <<>>)

plan_next_action(st, resp) ==
    IF resp.kind = "invoke_error" THEN default_decision(st) ELSE make_decision(resp)

(***************************************************************************)
(* complete_agent_flow_rule.py: routing and the planning node              *)
(***************************************************************************)
_decision_to_route(decision) ==
    CASE decision = "generate_outline" -> "outline_generator"
      [] decision = "compute_metrics"  -> "metric_calculator"
      [] decision = "finalize_report"  -> "report_finalizer"
      [] OTHER                         -> "planning_node"

\* _route_from_planning with the two emptiness tests merged into one, as in
\* the routing function of other_agents/graph.py
RouteWithoutEvaluator(st) ==
    IF st.planning_step > StepCeiling THEN "END"
    ELSE IF st.outline_draft = None \/ st.metrics_requirements = <<>>
    THEN "outline_generator"
    ELSE LET coverage == get_calculation_progress(st).coverage_rate
         IN  IF st.pending_metric_ids # <<>> /\ RateLt(coverage, 1, 1)
             THEN "metric_calculator"
             ELSE "report_finalizer"

\* _route_from_planning asking for a new outline when nothing is pending and
\* the coverage is below 0.8
RouteRegeneratesOutline(st) ==
    IF st.planning_step > StepCeiling THEN "END"
    ELSE IF st.outline_draft = None THEN "outline_generator"
    ELSE IF st.metrics_requirements = <<>> THEN "metric_evaluator"
    ELSE LET coverage == get_calculation_progress(st).coverage_rate
         IN  IF st.pending_metric_ids # <<>> /\ RateLt(coverage, 1, 1)
             THEN "metric_calculator"
             ELSE IF ~RateLt(coverage, 8, 10) THEN "report_finalizer"
             ELSE "outline_generator"

_route_from_planning(st) ==
    IF st.planning_step > StepCeiling THEN "END"
    ELSE IF st.outline_draft = None THEN "outline_generator"
    ELSE IF st.metrics_requirements = <<>> THEN "metric_evaluator"
    ELSE LET coverage == get_calculation_progress(st).coverage_rate
         IN  IF st.pending_metric_ids # <<>> /\ RateLt(coverage, 1, 1)
             THEN "metric_calculator"
             ELSE IF st.pending_metric_ids = <<>> \/ ~RateLt(coverage, 8, 10)
             THEN "report_finalizer"
             ELSE "planning_node"

(***************************************************************************)
(* other_agents/graph.py: the routing function of the earlier graph, which *)
(* has no metric_evaluator node.                                           *)
(***************************************************************************)
\* route_from_planning: `if state['planning_step'] > 50`
GraphStepCeiling == 50

\* route_from_planning: `if state['planning_step'] > 30 and coverage > 0.5`
GraphSoftCeiling == 30

route_from_planning(st) ==
    IF st.planning_step > GraphStepCeiling THEN "report_compiler"
    ELSE IF st.outline_draft = None THEN "outline_generator"
    ELSE IF st.metrics_requirements = <<>> THEN "outline_generator"
    ELSE LET coverage == Rate(Cardinality(DOMAIN st.computed_metrics),
                              Len(st.metrics_requirements))
         IN  IF st.planning_step > GraphSoftCeiling /\ RateGt(coverage, 1, 2)
             THEN "report_compiler"
             ELSE IF RateLt(coverage, 8, 10) THEN "metrics_calculator"
             ELSE "report_compiler"

_planning_node(st, resp) ==
    IF resp.kind = "construct_error"
    THEN [st EXCEPT !.errors = Append(@, "planning")]
    ELSE LET decision == plan_next_action(st, resp)
         IN  update_state_with_planning_decision(st,
                 [ decision |-> decision.decision,
                   next_route |-> _decision_to_route(decision.decision),
                   metrics_to_compute |-> decision.metrics_to_compute ])

(***************************************************************************)
(* complete_agent_flow_rule.py: the worker nodes                           *)
(***************************************************************************)
\* an outline with one section that needs every global metric
OutlineOf(ids) ==
    ReportOutline(<<ReportSection("sec_1", ids)>>,
                  [i \in 1..Len(ids) |-> MetricRequirement(ids[i])])

\* an outline of two sections that both need m1, the second of which also
\* names a metric that is not one of the global metrics
OutlineTwoSections ==
    ReportOutline(<<ReportSection("sec_1", <<"m1">>),
                    ReportSection("sec_2", <<"m1", "m2">>)>>,
                  <<MetricRequirement("m1")>>)

\* the outlines generate_report_outline returns in this model
Outlines ==
    {OutlineOf(<<>>), OutlineOf(<<"m1">>), OutlineOf(<<"m1", "m2">>), OutlineTwoSections}

\* _outline_generator_node: generate_report_outline(..., max_retries=3, ...)
max_retries == 3

\* one attempt of generate_report_outline: agent.generate_outline returns an
\* outline, or raises (the language model call raises, or its answer cannot
\* be parsed, which leaves `outline` unbound)
AttemptResults ==
    {[ok |-> TRUE, outline |-> o] : o \in Outlines}
    \cup {[ok |-> FALSE, outline |-> OutlineOf(<<>>)]}

\* generate_report_outline: the outline of the first attempt that succeeds;
\* when every attempt has failed the code after the loop evaluates
\* `self._load_available_metrics()` in a module-level function, which
\* raises NameError before any default outline is built
generate_report_outline(attempts) ==
    IF \E i \in 1..max_retries : attempts[i].ok
    THEN attempts[CHOOSE i \in 1..max_retries :
                     attempts[i].ok /\ \A j \in 1..(i-1) : ~attempts[j].ok]
    ELSE [ok |-> FALSE, outline |-> OutlineOf(<<>>)]

\* generate_report_outline either returns an outline or raises
OutlineResults ==
    {generate_report_outline(attempts) :
        attempts \in [1..max_retries -> AttemptResults]}

_outline_generator_node(st, res) ==
    IF res.ok
    THEN update_state_with_outline_generation(st, res.outline)
    ELSE [st EXCEPT !.errors = Append(@, "outline")]

\* _metric_evaluator_node without the reset of computed_metrics
MetricEvaluatorKeepsComputed(st) ==
    IF st.outline_draft = None THEN st
    ELSE LET outline == st.outline_draft[1]
         IN  [st EXCEPT !.metrics_requirements = outline.global_metrics,
                        !.pending_metric_ids = MetricIdsOf(outline.global_metrics)]

_metric_evaluator_node(st) ==
    IF st.outline_draft = None THEN st
    ELSE LET outline == st.outline_draft[1]
         IN  [st EXCEPT !.metrics_requirements = outline.global_metrics,
                        !.pending_metric_ids = MetricIdsOf(outline.global_metrics),
                        !.computed_metrics = EmptyDict]

\* state.get("current_batch_metrics", []): no node and no state update sets the key
current_batch_metrics(st) == <<>>

\* the batch of one _metric_calculator_node run
CalculatorBatch(st) ==
    IF current_batch_metrics(st) # <<>> THEN current_batch_metrics(st)
    ELSE st.pending_metric_ids

\* What requests.post meets when the Knowledge Engine is called: no answer
\* (timeout, connection error), or an answer with a status code and a body
\* that is a JSON payload or text that is not JSON
EngineResponses ==
    {[transport |-> "error", status_code |-> 0, body |-> "none"]}
    \cup {[transport |-> "ok", status_code |-> c, body |-> b] :
            c \in {200, 500}, b \in Results \cup {RawText}}

\* a response the engine contract calls a failure: no answer, a status that
\* is not 200, or a body that is not JSON
BadResponse(response) ==
    \/ response.transport # "ok"
    \/ response.status_code # 200
    \/ response.body \notin Results

\* the result dict of one API call
_call_rules_engine_api_by_knowledge_id(response) ==
    IF response.transport # "ok" THEN [success |-> FALSE, data |-> "none"]
    ELSE IF response.status_code = 200
    THEN [success |-> TRUE, data |-> response.body]
    ELSE [success |-> FALSE, data |-> "none"]

\* calculate_metrics for one target config whose API call got `response`, as
\* the calculator's result loop reads it
calculate_metrics(response) ==
    LET result == _call_rules_engine_api_by_knowledge_id(response)
    IN  IF result.success THEN [kind |-> "success", result |-> result.data]
        ELSE [kind |-> "failure", result |-> "none"]

\* What the computation of one metric meets in the rules engine mode:
\*   success     results holds one entry whose result.success is true
\*   failure     results holds one entry without a successful result (a
\*               failed API call, or a config name that is neither a config
\*               file nor a knowledge id)
\*   no_results  calculate_metrics caught an exception: results is empty
\*   exception   the loop body raises
EngineOutcomes ==
    {calculate_metrics(response) : response \in EngineResponses}
    \cup {[kind |-> k, result |-> "none"] : k \in {"no_results", "exception"}}

\* the traditional mode builds a successful result without any call
TraditionalOutcome == [kind |-> "success", result |-> TraditionalResult]

\* HasRequirement without the lookup in metrics_requirements
HasRequirementAny(st, metric_id) == TRUE

HasRequirement(st, metric_id) == metric_id \in Elems(MetricIdsOf(st.metrics_requirements))

\* CalcStep with the removal from pending_metric_ids done only on success
CalcStepKeepsFailed(st, acc, metric_id, outcome) ==
    IF ~HasRequirement(st, metric_id)
    THEN [acc EXCEPT !.pending_metric_ids = RemoveFirst(@, metric_id)]
    ELSE IF outcome.kind = "success"
    THEN [acc EXCEPT !.computed_metrics = DictSet(@, metric_id, outcome.result),
                     !.successful_calculations = @ + 1,
                     !.pending_metric_ids = RemoveFirst(@, metric_id)]
    ELSE [acc EXCEPT !.failed_calculations = @ + 1]

\* CalcStep with a failed computation deleting the metric's earlier result
CalcStepForgetsOnFailure(st, acc, metric_id, outcome) ==
    IF ~HasRequirement(st, metric_id)
    THEN [acc EXCEPT !.pending_metric_ids = RemoveFirst(@, metric_id)]
    ELSE IF outcome.kind = "success"
    THEN [acc EXCEPT !.computed_metrics = DictSet(@, metric_id, outcome.result),
                     !.successful_calculations = @ + 1,
                     !.pending_metric_ids = RemoveFirst(@, metric_id)]
    ELSE [acc EXCEPT !.computed_metrics =
                         [k \in (DOMAIN acc.computed_metrics) \ {metric_id} |->
                             acc.computed_metrics[k]],
                     !.failed_calculations = @ + 1,
                     !.pending_metric_ids = RemoveFirst(@, metric_id)]

\* CalcStep with the result entry stored whether or not it is successful
CalcStepStoresFailed(st, acc, metric_id, outcome) ==
    IF ~HasRequirement(st, metric_id)
    THEN [acc EXCEPT !.pending_metric_ids = RemoveFirst(@, metric_id)]
    ELSE IF outcome.kind \in {"success", "failure"}
    THEN [acc EXCEPT !.computed_metrics = DictSet(@, metric_id, outcome.result),
                     !.successful_calculations = @ + 1,
                     !.pending_metric_ids = RemoveFirst(@, metric_id)]
    ELSE [acc EXCEPT !.failed_calculations = @ + 1,
                     !.pending_metric_ids = RemoveFirst(@, metric_id)]

\* one pass of `for metric_id in pending_ids.copy()`
CalcStep(st, acc, metric_id, outcome) ==
    IF ~HasRequirement(st, metric_id)
    THEN [acc EXCEPT !.pending_metric_ids = RemoveFirst(@, metric_id)]
    ELSE LET o == IF st.use_traditional_engine_only THEN TraditionalOutcome ELSE outcome
         IN  CASE o.kind = "success" ->
                    [acc EXCEPT !.computed_metrics = DictSet(@, metric_id, o.result),
                                !.successful_calculations = @ + 1,
                                !.pending_metric_ids = RemoveFirst(@, metric_id)]
               [] o.kind = "failure" ->
                    [acc EXCEPT !.failed_calculations = @ + 1,
                                !.pending_metric_ids = RemoveFirst(@, metric_id)]
               [] o.kind = "no_results" ->
                    [acc EXCEPT !.pending_metric_ids = RemoveFirst(@, metric_id)]
               [] OTHER ->
                    [acc EXCEPT !.failed_calculations = @ + 1,
                                !.pending_metric_ids = RemoveFirst(@, metric_id)]

RECURSIVE CalcLoop(_, _, _, _, _)
CalcLoop(st, batch, outcomes, i, acc) ==
    IF i > Len(batch) THEN acc
    ELSE CalcLoop(st, batch, outcomes, i + 1, CalcStep(st, acc, batch[i], outcomes[i]))

_metric_calculator_node(st, outcomes) ==
    LET pending_ids == CalculatorBatch(st)
    IN  IF pending_ids = <<>> THEN st
        ELSE IF st.metrics_requirements = <<>> THEN st
        ELSE LET acc == CalcLoop(st, pending_ids, outcomes, 1,
                            [ pending_metric_ids |-> st.pending_metric_ids,
                              computed_metrics |-> st.computed_metrics,
                              successful_calculations |-> 0,
                              failed_calculations |-> 0 ])
             IN  [st EXCEPT !.pending_metric_ids = acc.pending_metric_ids,
                            !.computed_metrics = acc.computed_metrics,
                            !.calculation_results =
                                << [ total_configs |-> Len(acc.pending_metric_ids),
                                     successful_calculations |-> acc.successful_calculations,
                                     failed_calculations |-> acc.failed_calculations ] >>]

\* SectionMetrics without the sentinel for a metric that was not computed
SectionMetricsNoSentinel(section, computed_metrics) ==
    [metric_id \in Elems(section.metrics_needed) |->
        IF metric_id \in DOMAIN computed_metrics
        THEN computed_metrics[metric_id] ELSE "none"]

\* the metric map of one section of the final report
SectionMetrics(section, computed_metrics) ==
    [metric_id \in Elems(section.metrics_needed) |->
        IF metric_id \in DOMAIN computed_metrics
        THEN computed_metrics[metric_id] ELSE DataMissing]

_report_finalizer_node(st) ==
    IF st.outline_draft = None
    THEN [st EXCEPT !.errors = Append(@, "report")]
    ELSE LET outline == st.outline_draft[1]
             computed_metrics == st.computed_metrics
             final_report ==
                 [ summary |->
                     [ total_sections |-> Len(outline.sections),
                       total_metrics_required |-> Len(outline.global_metrics),
                       total_metrics_computed |-> Cardinality(DOMAIN computed_metrics),
                       planning_steps |-> st.planning_step,
                       completion_rate |-> Rate(Cardinality(DOMAIN computed_metrics),
                                                Len(outline.global_metrics)) ],
                   sections |->
                     [i \in 1..Len(outline.sections) |->
                        [ section_id |-> outline.sections[i].section_id,
                          metrics |-> SectionMetrics(outline.sections[i],
                                                     computed_metrics) ]] ]
         IN  finalize_state_with_report(st, final_report)

\* What run_workflow returns when app.ainvoke returns its final state `st`.
\* (Its except branch answers success = False with an error when ainvoke
\* raises; every node catches its own exceptions, so no node makes it raise.)
run_workflow(st) ==
    [ success |-> TRUE,
      report |-> st.report_draft,
      execution_summary |->
        [ planning_steps |-> st.planning_step,
          outline_generated |-> st.outline_draft # None,
          metrics_computed |-> Cardinality(DOMAIN st.computed_metrics),
          completion_rate |-> st.completeness_score ] ]

(***************************************************************************)
(* History of the Knowledge Engine calls of one calculator run.            *)
(***************************************************************************)
\* positions of the batch whose metric is sent to the rules engine
EngineCalls(st, batch) ==
    {i \in 1..Len(batch) : HasRequirement(st, batch[i]) /\ ~st.use_traditional_engine_only}

CallsOf(st, batch, id) == {i \in EngineCalls(st, batch) : batch[i] = id}

FailedCallsOf(st, batch, outcomes, id) ==
    {i \in CallsOf(st, batch, id) : outcomes[i].kind # "success"}

RECURSIVE SatAdd(_, _)
SatAdd(n, k) == IF k = 0 THEN n ELSE SatAdd(SatInc(n), k - 1)

\* failures of `id` before position i of the batch, saturating
FailuresBefore(st, batch, outcomes, id, i, before) ==
    SatAdd(before[id], Cardinality({j \in FailedCallsOf(st, batch, outcomes, id) : j < i}))

\* metrics sent to the engine although max_retry computations of them failed
LateCalls(st, batch, outcomes, before) ==
    {id \in MetricIds :
        \E i \in CallsOf(st, batch, id) :
            FailuresBefore(st, batch, outcomes, id, i, before) >= max_retry}

(***************************************************************************)
(* The snapshot a node received, as its caller finds it once the node has  *)
(* returned.  state.copy() is a shallow copy: the copy holds the same list *)
(* and dict objects as the snapshot.  An assignment new_state[k] = v       *)
(* leaves the snapshot alone; append, remove and item assignment on        *)
(* new_state[k] change the object the snapshot holds as well.  messages    *)
(* and plan_history are kept as the number of elements appended to them.   *)
(***************************************************************************)
SnapshotAfter(errors, pending, computed, messages, plan_history) ==
    [ errors |-> errors, pending_metric_ids |-> pending,
      computed_metrics |-> computed, messages_appended |-> messages,
      plan_history_appended |-> plan_history ]

SnapshotBefore(st) ==
    SnapshotAfter(st.errors, st.pending_metric_ids, st.computed_metrics, 0, 0)

\* plan_history.append in update_state_with_planning_decision, then
\* messages.append; errors.append on the except path
_planning_node_input(st, resp) ==
    IF resp.kind = "construct_error"
    THEN SnapshotAfter(_planning_node(st, resp).errors,
                       st.pending_metric_ids, st.computed_metrics, 0, 0)
    ELSE SnapshotAfter(st.errors, st.pending_metric_ids, st.computed_metrics, 1, 1)

\* messages.append in update_state_with_outline_generation
_outline_generator_node_input(st, res) ==
    IF res.ok
    THEN SnapshotAfter(st.errors, st.pending_metric_ids, st.computed_metrics, 1, 0)
    ELSE SnapshotAfter(_outline_generator_node(st, res).errors,
                       st.pending_metric_ids, st.computed_metrics, 0, 0)

\* pending_metric_ids and computed_metrics are assigned, messages is appended to
_metric_evaluator_node_input(st) ==
    IF st.outline_draft = None THEN SnapshotBefore(st)
    ELSE SnapshotAfter(st.errors, st.pending_metric_ids, st.computed_metrics, 1, 0)

\* new_state["pending_metric_ids"].remove(metric_id) and
\* new_state["computed_metrics"][metric_id] = ... act on the snapshot's objects
_metric_calculator_node_input(st, outcomes) ==
    IF CalculatorBatch(st) = <<>> \/ st.metrics_requirements = <<>>
    THEN SnapshotBefore(st)
    ELSE SnapshotAfter(st.errors,
                       _metric_calculator_node(st, outcomes).pending_metric_ids,
                       _metric_calculator_node(st, outcomes).computed_metrics,
                       1, 0)

\* finalize_state_with_report assigns; messages.append after it
_report_finalizer_node_input(st) ==
    IF st.outline_draft = None
    THEN SnapshotAfter(_report_finalizer_node(st).errors,
                       st.pending_metric_ids, st.computed_metrics, 0, 0)
    ELSE SnapshotAfter(st.errors, st.pending_metric_ids, st.computed_metrics, 1, 0)

(***************************************************************************)
(* agents/outline_agent.py: OutlineGeneratorAgent.generate_outline.        *)
(*                                                                         *)
(* The generator tests, cuts and builds strings, so in this part a string  *)
(* is the sequence of its pieces: "metric-a" is <<"metric-", "a">> and ""  *)
(* is <<>>.  No piece other than "metric-" contains "metric-".             *)
(***************************************************************************)
MetricPrefix == "metric-"

\* s.startswith("metric-")
startswith(s) == s # <<>> /\ Head(s) = MetricPrefix

\* s.replace("metric-", ""): every occurrence is removed, not only a prefix
replace(s) == SelectSeq(s, LAMBDA piece : piece # MetricPrefix)

\* str(n)
str(n) == <<"1", "2", "3", "4", "5", "6", "7", "8", "9">>[n]

\* min of a non-empty set of list positions: the first one a loop meets
First(positions) == CHOOSE i \in positions : \A j \in positions : i <= j

\* s[a:b]
Slice(s, a, b) == IF a >= b THEN <<>> ELSE SubSeq(s, a + 1, b)

\* max(1, a // b)
AtLeastOne(a, b) == IF a \div b < 1 THEN 1 ELSE a \div b

\* the pydantic MetricRequirement of the generator (calculation_logic and
\* required_fields are written and never read back)
OutlineMetricRequirement(id, name) ==
    [metric_id |-> id, metric_name |-> name, dependencies |-> <<>>]

\* one section of the language model's outline, with its three metric lists
NewSection(sid, calc, stat, ana) ==
    [section_id |-> sid, calculation_metrics |-> calc,
     statistical_metrics |-> stat, analysis_metrics |-> ana]

\* the answers of the language model to the matching prompt: a text, or the
\* call raises; `mentions` are then the catalog positions whose description
\* holds the metric name
LlmMatchAnswers(catalog) ==
    {[kind |-> "answer", text |-> t, mentions |-> {}] :
        t \in {<<>>, <<"unknown">>} \cup {catalog[i].id : i \in 1..Len(catalog)}}
    \cup {[kind |-> "error", text |-> <<>>, mentions |-> m] :
            m \in SUBSET (1..Len(catalog))}

\* the catalog positions the exact-match loop accepts
ExactMatches(metric_name, catalog) ==
    {i \in 1..Len(catalog) :
        startswith(catalog[i].id) /\ replace(catalog[i].id) = metric_name}

\* the catalog positions the keyword loop accepts ("" is in every string)
KeywordMatches(metric_name, catalog, mentions) ==
    IF metric_name = <<>> THEN 1..Len(catalog)
    ELSE mentions \cap (1..Len(catalog))

\* the resolver without the check of the language model's answer against
\* the catalog
MatchAcceptsAnyAnswer(metric_name, catalog, llm) ==
    IF catalog = <<>> THEN <<>>
    ELSE IF ExactMatches(metric_name, catalog) # {}
    THEN catalog[First(ExactMatches(metric_name, catalog))].id
    ELSE IF llm.kind = "answer" THEN llm.text
    ELSE IF KeywordMatches(metric_name, catalog, llm.mentions) # {}
    THEN catalog[First(KeywordMatches(metric_name, catalog, llm.mentions))].id
    ELSE <<>>

_match_metric_to_knowledge(metric_name, catalog, llm) ==
    IF catalog = <<>> THEN <<>>
    ELSE IF ExactMatches(metric_name, catalog) # {}
    THEN catalog[First(ExactMatches(metric_name, catalog))].id
    ELSE IF llm.kind = "answer"
    THEN IF llm.text # <<>> /\ \E i \in 1..Len(catalog) : catalog[i].id = llm.text
         THEN llm.text
         ELSE <<>>
    ELSE IF KeywordMatches(metric_name, catalog, llm.mentions) # {}
    THEN catalog[First(KeywordMatches(metric_name, catalog, llm.mentions))].id
    ELSE <<>>

\* metrics_needed of a converted section: the metric names, list after list
SectionMetricNames(section_data) ==
    section_data.calculation_metrics \o section_data.statistical_metrics
        \o section_data.analysis_metrics

ConvertedSections(data) ==
    [i \in 1..Len(data) |->
        ReportSection(data[i].section_id, SectionMetricNames(data[i]))]

\* the metric names in the order the global_metrics loop meets them
RECURSIVE NamesInOrder(_)
NamesInOrder(sections) ==
    IF sections = <<>> THEN <<>>
    ELSE Head(sections).metrics_needed \o NamesInOrder(Tail(sections))

\* one pass of the global_metrics loop for the name at position i, given the
\* resolver's result for it
GlobalMetricsStep(acc, metric_name, knowledge_id) ==
    IF knowledge_id # <<>> /\ knowledge_id \notin acc.used_knowledge_ids
    THEN [global_metrics |->
              Append(acc.global_metrics,
                     OutlineMetricRequirement(knowledge_id, metric_name)),
          used_knowledge_ids |-> acc.used_knowledge_ids \cup {knowledge_id}]
    ELSE IF \A k \in 1..Len(acc.global_metrics) :
                acc.global_metrics[k].metric_id # metric_name
    THEN [acc EXCEPT !.global_metrics =
              Append(@, OutlineMetricRequirement(metric_name, metric_name))]
    ELSE acc

RECURSIVE GlobalMetricsLoop(_, _, _, _)
GlobalMetricsLoop(names, resolved, i, acc) ==
    IF i > Len(names) THEN acc
    ELSE GlobalMetricsLoop(names, resolved, i + 1,
                           GlobalMetricsStep(acc, names[i], resolved[i]))

\* the resolver's result for every name the loop meets; llm[i] is the
\* language model's answer should the i-th call reach it
Resolutions(data, catalog, llm) ==
    LET names == NamesInOrder(ConvertedSections(data))
    IN  [i \in 1..Len(names) |->
            _match_metric_to_knowledge(names[i], catalog, llm[i])]

_convert_new_format_to_outline(data, catalog, llm) ==
    LET sections == ConvertedSections(data)
    IN  ReportOutline(
            sections,
            GlobalMetricsLoop(NamesInOrder(sections),
                              Resolutions(data, catalog, llm), 1,
                              [global_metrics |-> <<>>,
                               used_knowledge_ids |-> {}]).global_metrics)

\* _post_process_outline, the two repair loops
RepairKeepsMetricIds(outline) ==
    [outline EXCEPT !.sections =
        [i \in 1..Len(@) |->
            IF @[i].section_id = <<>>
            THEN [@[i] EXCEPT !.section_id = <<"sec_", str(i)>>]
            ELSE @[i]]]

RepairOutline(outline) ==
    LET sections == outline.sections
        metrics == outline.global_metrics
    IN  ReportOutline(
            [i \in 1..Len(sections) |->
                IF sections[i].section_id = <<>>
                THEN [sections[i] EXCEPT !.section_id = <<"sec_", str(i)>>]
                ELSE sections[i]],
            [i \in 1..Len(metrics) |->
                IF metrics[i].metric_id = <<>>
                THEN [metrics[i] EXCEPT !.metric_id = <<"metric_", str(i)>>]
                ELSE metrics[i]])

\* the metric names of the catalog
_load_available_metrics(catalog) ==
    LET entries == SelectSeq(catalog, LAMBDA k : startswith(k.id))
    IN  [i \in 1..Len(entries) |-> replace(entries[i].id)]

\* answer: the language model's lines, or the call raises
_find_missing_key_metrics(available, selected, query_keywords, answer) ==
    IF query_keywords = <<>> \/ available = <<>> THEN <<>>
    ELSE IF answer.kind = "error" THEN <<>>
    ELSE SelectSeq(answer.lines,
                   LAMBDA metric_name :
                       /\ metric_name # <<>>
                       /\ metric_name \notin selected
                       /\ metric_name \in Elems(available))

\* every section gets at most 5 ids of its line
MaxPerSection == 5

\* the valid ids of one line of the assignment answer
RECURSIVE ValidMetrics(_, _, _, _)
ValidMetrics(metric_ids, available_metric_ids, assigned_metrics, valid) ==
    IF metric_ids = <<>> \/ Len(valid) >= MaxPerSection THEN valid
    ELSE ValidMetrics(
            Tail(metric_ids), available_metric_ids, assigned_metrics,
            IF /\ Head(metric_ids) \in available_metric_ids
               /\ Head(metric_ids) \notin assigned_metrics
               /\ Head(metric_ids) \notin Elems(valid)
            THEN Append(valid, Head(metric_ids))
            ELSE valid)

\* the loop over the lines of the assignment answer
RECURSIVE AssignLines(_, _, _, _)
AssignLines(sections, available_metric_ids, lines, assigned_metrics) ==
    IF lines = <<>>
    THEN [sections |-> sections, assigned_metrics |-> assigned_metrics]
    ELSE LET line == Head(lines)
             found == {i \in 1..Len(sections) :
                          sections[i].section_id = line.section_id}
         IN  IF found = {}
             THEN AssignLines(sections, available_metric_ids, Tail(lines),
                              assigned_metrics)
             ELSE LET valid_metrics ==
                          ValidMetrics(line.metric_ids, available_metric_ids,
                                       assigned_metrics, <<>>)
                  IN  AssignLines(
                          [sections EXCEPT
                              ![First(found)].metrics_needed = valid_metrics],
                          available_metric_ids, Tail(lines),
                          assigned_metrics \cup Elems(valid_metrics))

\* the ids split evenly over the sections at `positions` (in list order)
SpreadEvenly(sections, positions, metric_ids) ==
    LET metrics_per_section == AtLeastOne(Len(metric_ids), Len(positions))
        start_idx(i) == (i - 1) * metrics_per_section
        end_idx(i) ==
            IF start_idx(i) + metrics_per_section < Len(metric_ids)
            THEN start_idx(i) + metrics_per_section
            ELSE Len(metric_ids)
    IN  [s \in 1..Len(sections) |->
            IF \E i \in 1..Len(positions) : positions[i] = s
            THEN LET i == CHOOSE j \in 1..Len(positions) : positions[j] = s
                 IN  [sections[s] EXCEPT
                        !.metrics_needed =
                            Slice(metric_ids, start_idx(i), end_idx(i))]
            ELSE sections[s]]

\* the positions 1..n that satisfy `keep`, in order
RECURSIVE PositionsIn(_, _)
PositionsIn(n, keep) ==
    IF n = 0 THEN <<>>
    ELSE PositionsIn(n - 1, keep) \o (IF n \in keep THEN <<n>> ELSE <<>>)

\* answer: the lines "section_id:id,id" of the language model, or the call
\* raises
_smart_assign_section_metrics(outline, answer) ==
    IF outline.sections = <<>> \/ outline.global_metrics = <<>> THEN outline
    ELSE LET all_metric_ids == MetricIdsOf(outline.global_metrics)
             n == Len(outline.sections)
         IN  IF answer.kind = "error"
             THEN [outline EXCEPT !.sections =
                      SpreadEvenly(@, PositionsIn(n, 1..n), all_metric_ids)]
             ELSE LET done == AssignLines(outline.sections,
                                          Elems(all_metric_ids),
                                          answer.lines, {})
                      unassigned_sections ==
                          PositionsIn(n, {i \in 1..n :
                              done.sections[i].metrics_needed = <<>>})
                      remaining_metrics ==
                          SelectSeq(all_metric_ids,
                                    LAMBDA id : id \notin done.assigned_metrics)
                  IN  IF unassigned_sections # <<>> /\ remaining_metrics # <<>>
                      THEN [outline EXCEPT !.sections =
                               SpreadEvenly(done.sections, unassigned_sections,
                                            remaining_metrics)]
                      ELSE [outline EXCEPT !.sections = done.sections]

_optimize_metrics_by_query(outline, catalog, query_keywords, missing, assign) ==
    LET available_metrics == _load_available_metrics(catalog)
        selected_metric_names ==
            {outline.global_metrics[i].metric_name :
                i \in 1..Len(outline.global_metrics)}
        missing_key_metrics ==
            _find_missing_key_metrics(available_metrics, selected_metric_names,
                                      query_keywords, missing)
        supplemented ==
            [outline EXCEPT !.global_metrics =
                @ \o [i \in 1..Len(missing_key_metrics) |->
                        OutlineMetricRequirement(
                            <<MetricPrefix>> \o missing_key_metrics[i],
                            missing_key_metrics[i])]]
    IN  _smart_assign_section_metrics(supplemented, assign)

_post_process_outline(outline, catalog, query_keywords, missing, assign) ==
    LET repaired == RepairOutline(outline)
    IN  IF repaired.global_metrics # <<>>
        THEN _optimize_metrics_by_query(repaired, catalog, query_keywords,
                                        missing, assign)
        ELSE repaired

\* the agent before generate_outline is called
GeneratorIdle ==
    [stage |-> "idle", oracle |-> <<>>, resolved |-> <<>>,
     converted |-> None, outline |-> None]

\* a CompleteAgentFlow instance on which run_workflow has not been called
FlowIdle == [runs |-> <<>>, last |-> "none", api_calls |-> 0]

(***************************************************************************)
(* The workflow: one action per node of the graph.                         *)
(***************************************************************************)
Init ==
    /\ state = create_initial_integrated_state
    /\ node = "planning_node"
    /\ last_node = "start"
    /\ planning_runs = 0
    /\ dispatched = [id \in MetricIds |-> 0]
    /\ engine_failures = [id \in MetricIds |-> 0]
    /\ late_dispatch = {}
    /\ available_knowledge = _load_available_knowledge(TRUE)
    /\ routed = [flow |-> "none", graph |-> "none", decision |-> "none"]
    /\ generator = GeneratorIdle
    /\ flow = FlowIdle

history == <<dispatched, engine_failures, late_dispatch>>

Planning(responses) ==
    /\ node = "planning_node"
    /\ \E resp \in responses :
        /\ resp.kind = "construct_error" => Len(state.errors) < MaxErrors
        /\ state' = _planning_node(state, resp)
    /\ node' = _route_from_planning(state')
    /\ last_node' = "planning_node"
    /\ planning_runs' = planning_runs + 1
    /\ UNCHANGED <<history, available_knowledge, routed, generator, flow>>

PlanningNode == Planning(OracleResponses)

OutlineGeneratorNode ==
    /\ node = "outline_generator"
    /\ \E res \in OutlineResults :
        /\ ~res.ok => Len(state.errors) < MaxErrors
        /\ state' = _outline_generator_node(state, res)
    /\ node' = "planning_node"
    /\ last_node' = "outline_generator"
    /\ UNCHANGED <<planning_runs, history, available_knowledge, routed, generator, flow>>

MetricEvaluatorNode ==
    /\ node = "metric_evaluator"
    /\ state' = _metric_evaluator_node(state)
    /\ node' = "planning_node"
    /\ last_node' = "metric_evaluator"
    /\ UNCHANGED <<planning_runs, history, available_knowledge, routed, generator, flow>>

MetricCalculatorNode ==
    /\ node = "metric_calculator"
    /\ \E outcomes \in [1..Len(CalculatorBatch(state)) -> EngineOutcomes] :
        state' = _metric_calculator_node(state, outcomes)
    /\ node' = "planning_node"
    /\ last_node' = "metric_calculator"
    /\ UNCHANGED <<planning_runs, history, available_knowledge, routed, generator, flow>>

\* the report finalizer with an edge back to planning_node
ReportFinalizerNodeReturns ==
    /\ node = "report_finalizer"
    /\ state' = _report_finalizer_node(state)
    /\ node' = "planning_node"
    /\ last_node' = "report_finalizer"
    /\ UNCHANGED <<planning_runs, history, available_knowledge, routed, generator, flow>>

ReportFinalizerNode ==
    /\ node = "report_finalizer"
    /\ state' = _report_finalizer_node(state)
    /\ node' = "END"
    /\ last_node' = "report_finalizer"
    /\ UNCHANGED <<planning_runs, history, available_knowledge, routed, generator, flow>>

Next ==
    \/ PlanningNode
    \/ OutlineGeneratorNode
    \/ MetricEvaluatorNode
    \/ MetricCalculatorNode
    \/ ReportFinalizerNode

Spec == Init /\ [][Next]_vars

(***************************************************************************)
(* The same workflow while the Decision Oracle is down (every call of the  *)
(* language model raises, so plan_next_action answers with its default     *)
(* decision), with the history of the Knowledge Engine calls recorded.     *)
(***************************************************************************)
OracleDown == {r \in OracleResponses : r.kind = "invoke_error"}

PlanningNodeOracleDown == Planning(OracleDown)

MetricCalculatorNodeRecorded ==
    /\ node = "metric_calculator"
    /\ LET batch == CalculatorBatch(state)
       IN  \E outcomes \in [1..Len(batch) -> EngineOutcomes] :
            /\ state' = _metric_calculator_node(state, outcomes)
            /\ dispatched' =
                 [id \in MetricIds |->
                    SatAdd(dispatched[id], Cardinality(CallsOf(state, batch, id)))]
            /\ engine_failures' =
                 [id \in MetricIds |->
                    SatAdd(engine_failures[id],
                           Cardinality(FailedCallsOf(state, batch, outcomes, id)))]
            /\ late_dispatch' =
                 late_dispatch \cup LateCalls(state, batch, outcomes, engine_failures)
    /\ node' = "planning_node"
    /\ last_node' = "metric_calculator"
    /\ UNCHANGED <<planning_runs, available_knowledge, routed, generator, flow>>

NextOracleDown ==
    \/ PlanningNodeOracleDown
    \/ OutlineGeneratorNode
    \/ MetricEvaluatorNode
    \/ MetricCalculatorNodeRecorded
    \/ ReportFinalizerNode

SpecOracleDown == Init /\ [][NextOracleDown]_vars

(***************************************************************************)
(* The workflow while the Decision Oracle answers every call with          *)
(* compute_metrics, naming no batch (the pending list is then kept) or the *)
(* batch [m1], with the history of the Knowledge Engine calls recorded.    *)
(***************************************************************************)
BatchResponses ==
    {r \in OracleResponses :
        /\ r.kind = "parsed"
        /\ r.decision = "compute_metrics"
        /\ r.metrics_to_compute \in {<<>>, <<"m1">>}}

PlanningNodeBatches == Planning(BatchResponses)

NextBatches ==
    \/ PlanningNodeBatches
    \/ OutlineGeneratorNode
    \/ MetricEvaluatorNode
    \/ MetricCalculatorNodeRecorded
    \/ ReportFinalizerNode

SpecBatches == Init /\ [][NextBatches]_vars

(***************************************************************************)
(* The workflow started while getKnowledgeMeta is unreachable: the agents  *)
(* load an empty catalog.  The catalog is read by the knowledge resolver   *)
(* of the outline generator (an empty catalog resolves no metric name, so  *)
(* the outline keeps the names of the language model as metric ids) and by *)
(* _get_input_field_for_knowledge (which falls back to "transactions");    *)
(* the nodes run as in every other run.                                    *)
(***************************************************************************)
InitCatalogDown ==
    /\ state = create_initial_integrated_state
    /\ node = "planning_node"
    /\ last_node = "start"
    /\ planning_runs = 0
    /\ dispatched = [id \in MetricIds |-> 0]
    /\ engine_failures = [id \in MetricIds |-> 0]
    /\ late_dispatch = {}
    /\ available_knowledge = _load_available_knowledge(FALSE)
    /\ routed = [flow |-> "none", graph |-> "none", decision |-> "none"]
    /\ generator = GeneratorIdle
    /\ flow = FlowIdle

SpecCatalogDown == InitCatalogDown /\ [][Next]_vars

(***************************************************************************)
(* The routing functions on their own: the states handed to them are       *)
(* states a run can be in when planning_node returns (an outline of n      *)
(* metrics of which the first k are computed, and a pending list left by   *)
(* the calculator or installed from the language model's answer).          *)
(***************************************************************************)
RouterIds == <<"m1", "m2", "m3", "m4", "m5", "m6", "m7", "m8", "m9", "m10">>

RouterSteps == {3, StepCeiling, StepCeiling + 1}

RouterSizes == {0, 1, 2, 5, 10}

RouterPending(n, k) ==
    {<<>>, <<Placeholder>>}
    \cup (IF k >= 1 THEN {<<RouterIds[1]>>} ELSE {})
    \cup (IF n - k >= 1 THEN {<<RouterIds[n]>>} ELSE {})
    \cup (IF n - k >= 2 THEN {<<RouterIds[n-1], RouterIds[n]>>} ELSE {})

RouterState(step, n, k, pending) ==
    [create_initial_integrated_state EXCEPT
        !.planning_step = step,
        !.outline_draft = <<OutlineOf(SubSeq(RouterIds, 1, n))>>,
        !.outline_version = 1,
        !.outline_ready = TRUE,
        !.metrics_requirements = OutlineOf(SubSeq(RouterIds, 1, n)).global_metrics,
        !.computed_metrics = [id \in {RouterIds[i] : i \in 1..k} |-> "r1"],
        !.pending_metric_ids = pending]

RouterStates ==
    {[create_initial_integrated_state EXCEPT
         !.planning_step = step, !.pending_metric_ids = pending] :
        step \in RouterSteps, pending \in {<<>>, <<Placeholder>>, <<RouterIds[1]>>}}
    \cup UNION {UNION {{RouterState(step, n, k, pending) :
                          step \in RouterSteps, pending \in RouterPending(n, k)} :
                       k \in 0..n} :
                n \in RouterSizes}

InitRouter ==
    /\ state \in RouterStates
    /\ node = "route"
    /\ last_node = "planning_node"
    /\ planning_runs = 0
    /\ dispatched = [id \in MetricIds |-> 0]
    /\ engine_failures = [id \in MetricIds |-> 0]
    /\ late_dispatch = {}
    /\ available_knowledge = _load_available_knowledge(TRUE)
    /\ routed = [flow |-> "none", graph |-> "none", decision |-> "none"]
    /\ generator = GeneratorIdle
    /\ flow = FlowIdle

RouteFromPlanning ==
    /\ node = "route"
    /\ routed' = [flow |-> _route_from_planning(state),
                  graph |-> route_from_planning(state),
                  decision |-> "none"]
    /\ node' = "routed"
    /\ UNCHANGED <<state, last_node, planning_runs, history, available_knowledge, generator, flow>>

\* the answers of the language model plan_next_action cannot use: the call
\* raises, or the answer holds no JSON object or fails validation
UnusableResponses ==
    {r \in OracleResponses : r.kind \in {"invoke_error", "parse_error"}}

\* plan_next_action on an unusable answer, next to the route of the same state
PlanNextActionUnusable ==
    /\ node = "route"
    /\ \E resp \in UnusableResponses :
        routed' = [flow |-> _route_from_planning(state),
                   graph |-> route_from_planning(state),
                   decision |-> plan_next_action(state, resp).decision]
    /\ node' = "decided"
    /\ UNCHANGED <<state, last_node, planning_runs, history, available_knowledge, generator, flow>>

\* _metric_evaluator_node on its own
MetricEvaluator ==
    /\ node = "route"
    /\ state' = _metric_evaluator_node(state)
    /\ node' = "evaluated"
    /\ UNCHANGED <<last_node, planning_runs, history, available_knowledge, routed, generator, flow>>

NextRouter ==
    \/ RouteFromPlanning
    \/ PlanNextActionUnusable
    \/ MetricEvaluator

SpecRouter == InitRouter /\ [][NextRouter]_vars

(***************************************************************************)
(* generate_outline on its own: the language model has answered with an    *)
(* outline in the new format; the agent converts it (calling the knowledge *)
(* resolver for every metric name) and post-processes the result.  The     *)
(* outlines name a metric once, twice in one section, in two sections,     *)
(* without a name, and leave out section ids; the catalogs hold ids with   *)
(* the "metric-" prefix, one of them with "metric-" twice.                 *)
(***************************************************************************)
NameA == <<"a">>
NameB == <<"b">>
NameMetricA == <<MetricPrefix, "a">>

OracleSectionIds == {<<>>, <<"intro">>}

OracleMetricLists ==
    { <<<<>>, <<>>, <<>>>>,
      <<<<NameA>>, <<>>, <<>>>>,
      <<<<NameA>>, <<NameB>>, <<>>>>,
      <<<<NameA>>, <<>>, <<NameA>>>>,
      <<<<<<>>>>, <<>>, <<>>>>,
      <<<<NameMetricA>>, <<>>, <<>>>> }

OracleSections ==
    {NewSection(sid, m[1], m[2], m[3]) :
        sid \in OracleSectionIds, m \in OracleMetricLists}

OracleLastSections ==
    {NewSection(sid, <<name>>, <<>>, <<>>) :
        sid \in OracleSectionIds, name \in {NameA, NameB}}

OracleOutlines ==
    {<<s>> : s \in OracleSections}
    \cup {<<s, t>> : s \in OracleSections, t \in OracleLastSections}

GeneratorCatalogs ==
    { <<>>,
      <<[id |-> <<MetricPrefix, "a">>]>>,
      <<[id |-> <<MetricPrefix, "a">>], [id |-> <<MetricPrefix, "b">>]>>,
      <<[id |-> <<MetricPrefix, MetricPrefix, "a">>],
        [id |-> <<MetricPrefix, "a">>]>> }

\* _extract_query_keywords: no keyword, or some
QueryKeywords == {<<>>, <<"income">>}

\* the answers to the recommendation prompt
MissingAnswers ==
    {[kind |-> "error", lines |-> <<>>]}
    \cup {[kind |-> "answer", lines |-> ls] :
            ls \in {<<>>, <<NameA>>, <<NameB>>, <<NameA, NameA>>, <<<<"other">>>>}}

\* the answers to the assignment prompt
AssignLineChoices ==
    {[section_id |-> sid, metric_ids |-> ids] :
        sid \in {<<"intro">>, <<"sec_", "1">>, <<"sec_", "2">>},
        ids \in {<<>>, <<<<MetricPrefix, "a">>>>,
                 <<<<MetricPrefix, "a">>, <<MetricPrefix, "b">>>>}}

AssignAnswers ==
    {[kind |-> "error", lines |-> <<>>]}
    \cup {[kind |-> "answer", lines |-> ls] :
            ls \in {<<>>} \cup {<<l>> : l \in AssignLineChoices}
                   \cup {<<l, m>> : l \in AssignLineChoices,
                                    m \in AssignLineChoices}}

InitOutline ==
    /\ state = create_initial_integrated_state
    /\ node = "outline_generator"
    /\ last_node = "planning_node"
    /\ planning_runs = 0
    /\ dispatched = [id \in MetricIds |-> 0]
    /\ engine_failures = [id \in MetricIds |-> 0]
    /\ late_dispatch = {}
    /\ available_knowledge \in GeneratorCatalogs
    /\ routed = [flow |-> "none", graph |-> "none", decision |-> "none"]
    /\ generator \in {[GeneratorIdle EXCEPT !.stage = "answered", !.oracle = o] :
                        o \in OracleOutlines}
    /\ flow = FlowIdle

\* generate_outline up to ReportOutline(**converted_data)
ConvertNewFormatToOutline ==
    /\ generator.stage = "answered"
    /\ \E llm \in [1..Len(NamesInOrder(ConvertedSections(generator.oracle)))
                    -> LlmMatchAnswers(available_knowledge)] :
        generator' =
            [generator EXCEPT
                !.stage = "converted",
                !.resolved =
                    Resolutions(generator.oracle, available_knowledge, llm),
                !.converted =
                    <<_convert_new_format_to_outline(
                        generator.oracle, available_knowledge, llm)>>]
    /\ UNCHANGED <<state, node, last_node, planning_runs, history,
                   available_knowledge, routed, flow>>

\* generate_outline from _post_process_outline to its return
PostProcessOutline ==
    /\ generator.stage = "converted"
    /\ \E query_keywords \in QueryKeywords, missing \in MissingAnswers,
          assign \in AssignAnswers :
        generator' =
            [generator EXCEPT
                !.stage = "returned",
                !.outline =
                    <<_post_process_outline(
                        generator.converted[1], available_knowledge,
                        query_keywords, missing, assign)>>]
    /\ UNCHANGED <<state, node, last_node, planning_runs, history,
                   available_knowledge, routed, flow>>

NextOutline ==
    \/ ConvertNewFormatToOutline
    \/ PostProcessOutline

SpecOutline == InitOutline /\ [][NextOutline]_vars

(***************************************************************************)
(* Two run_workflow calls with different session ids on one                *)
(* CompleteAgentFlow instance, their node executions interleaved.  Each    *)
(* call builds its own initial state and compiles its own graph; the       *)
(* planning and outline agents are built anew inside plan_next_action and  *)
(* generate_report_outline; the instance's rules engine agent is shared,   *)
(* and calculate_metrics appends to its api_calls log.  `alone` is the     *)
(* state of the same run had it received the same answers on an instance   *)
(* of its own.  The Decision Oracle is down, the outline generator answers *)
(* with an outline of one metric and the engine call succeeds or fails,    *)
(* which keeps the product of the two runs small.                          *)
(***************************************************************************)
SessionIds == {"s1", "s2"}

SessionOutlineResults ==
    {res \in OutlineResults : res.ok /\ res.outline = OutlineOf(<<"m1">>)}

\* the engine's call succeeds with a result, or fails
SessionEngineOutcomes ==
    {o \in EngineOutcomes : o.kind \in {"success", "failure"}}

\* a node of run s has returned new_state (new_alone on an instance of its
\* own), LangGraph runs `next` next, the node made `calls` engine calls
SessionStepShared(s, new_state, new_alone, next, calls) ==
    flow' = [runs |-> [t \in SessionIds |->
                        [state |-> new_state,
                         node |-> IF t = s THEN next ELSE flow.runs[t].node,
                         alone |-> IF t = s THEN new_alone ELSE flow.runs[t].alone]],
             last |-> s,
             api_calls |-> SatAdd(flow.api_calls, calls)]

SessionStep(s, new_state, new_alone, next, calls) ==
    flow' = [runs |-> [flow.runs EXCEPT
                          ![s] = [state |-> new_state, node |-> next,
                                  alone |-> new_alone]],
             last |-> s,
             api_calls |-> SatAdd(flow.api_calls, calls)]

InitSessions ==
    /\ state = create_initial_integrated_state
    /\ node = "planning_node"
    /\ last_node = "start"
    /\ planning_runs = 0
    /\ dispatched = [id \in MetricIds |-> 0]
    /\ engine_failures = [id \in MetricIds |-> 0]
    /\ late_dispatch = {}
    /\ available_knowledge = _load_available_knowledge(TRUE)
    /\ routed = [flow |-> "none", graph |-> "none", decision |-> "none"]
    /\ generator = GeneratorIdle
    /\ flow = [runs |-> [s \in SessionIds |->
                            [state |-> create_initial_integrated_state,
                             node |-> "planning_node",
                             alone |-> create_initial_integrated_state]],
               last |-> "none",
               api_calls |-> 0]

SessionPlanningNode(s) ==
    /\ flow.runs[s].node = "planning_node"
    /\ \E resp \in OracleDown :
        SessionStep(s, _planning_node(flow.runs[s].state, resp),
                    _planning_node(flow.runs[s].alone, resp),
                    _route_from_planning(_planning_node(flow.runs[s].state, resp)),
                    0)

SessionOutlineGeneratorNode(s) ==
    /\ flow.runs[s].node = "outline_generator"
    /\ \E res \in SessionOutlineResults :
        SessionStep(s, _outline_generator_node(flow.runs[s].state, res),
                    _outline_generator_node(flow.runs[s].alone, res),
                    "planning_node", 0)

SessionMetricEvaluatorNode(s) ==
    /\ flow.runs[s].node = "metric_evaluator"
    /\ SessionStep(s, _metric_evaluator_node(flow.runs[s].state),
                   _metric_evaluator_node(flow.runs[s].alone),
                   "planning_node", 0)

SessionMetricCalculatorNode(s) ==
    /\ flow.runs[s].node = "metric_calculator"
    /\ LET batch == CalculatorBatch(flow.runs[s].state)
       IN  \E outcomes \in [1..Len(batch) -> SessionEngineOutcomes] :
            SessionStep(s, _metric_calculator_node(flow.runs[s].state, outcomes),
                        _metric_calculator_node(flow.runs[s].alone, outcomes),
                        "planning_node",
                        Cardinality(EngineCalls(flow.runs[s].state, batch)))

SessionReportFinalizerNode(s) ==
    /\ flow.runs[s].node = "report_finalizer"
    /\ SessionStep(s, _report_finalizer_node(flow.runs[s].state),
                   _report_finalizer_node(flow.runs[s].alone),
                   "END", 0)

NextSessions ==
    /\ \E s \in SessionIds :
        \/ SessionPlanningNode(s)
        \/ SessionOutlineGeneratorNode(s)
        \/ SessionMetricEvaluatorNode(s)
        \/ SessionMetricCalculatorNode(s)
        \/ SessionReportFinalizerNode(s)
    /\ UNCHANGED <<state, node, last_node, planning_runs, history,
                   available_knowledge, routed, generator>>

SpecSessions == InitSessions /\ [][NextSessions]_vars

(***************************************************************************)
(* Properties.                                                             *)
(***************************************************************************)
ReportFinalizerReached == state.is_complete

CoverageRate(st) == get_calculation_progress(st).coverage_rate

\* the valid pending subset of the status builder
ValidPending(st) == _build_status_context(st).filtered_pending_ids

\* C1: bounded termination: a run ends only after the report finalizer has
\* run, and the report finalizer runs after at most StepCeiling + 1
\* executions of the planning node, whatever the oracle and the engine do.
C1_BoundedTermination ==
    /\ node = "END" => ReportFinalizerReached
    /\ ~ReportFinalizerReached => planning_runs <= StepCeiling + 1

\* C2: forward progress: after a metric calculator execution no metric id of
\* its input batch is left in pending_metric_ids.
C2_ForwardProgress ==
    [][node = "metric_calculator" =>
          Elems(CalculatorBatch(state)) \cap Elems(state'.pending_metric_ids) = {}]_vars

\* reached: a calculator execution in which a computation failed
C2_Witness ==
    /\ last_node = "metric_calculator"
    /\ state.calculation_results # None
    /\ state.calculation_results[1].failed_calculations > 0
    /\ state.calculation_results[1].successful_calculations
         + state.calculation_results[1].failed_calculations = 2

\* C3: monotonic step counter: every execution of the planning node adds
\* exactly 1 to planning_step and no other node changes it, so planning_step
\* is the number of planning node executions so far.
C3_MonotonicStepCounter == state.planning_step = planning_runs

\* C4: circuit breaker: whenever planning_step > 30 the routing function
\* returns the report finalizer, whatever the rest of the state is.
C4_CircuitBreaker ==
    (node = "routed" /\ state.planning_step > StepCeiling)
        => routed.flow = "report_finalizer"

\* C5: coverage threshold routing: with planning_step <= 30, an outline and
\* non-empty metrics_requirements, the routing function returns
\* metric_calculator exactly when the valid pending subset is non-empty and
\* coverage_rate < 0.8, and the report finalizer otherwise.
C5_CoverageThresholdRouting ==
    (/\ node = "routed"
     /\ state.planning_step <= StepCeiling
     /\ state.outline_draft # None
     /\ state.metrics_requirements # <<>>)
        => IF ValidPending(state) # <<>> /\ RateLt(CoverageRate(state), 8, 10)
           THEN routed.flow = "metric_calculator"
           ELSE routed.flow = "report_finalizer"

C8_FailuresRecorded ==
    \A id \in MetricIds :
        engine_failures[id] <= max_retry
            => DictGet(state.failed_metric_attempts, id, 0) = engine_failures[id]

C12_FallbackIsRouter ==
    node = "decided"
        => /\ routed.decision = "generate_outline" <=> routed.flow = "outline_generator"
           /\ routed.decision = "compute_metrics" <=> routed.flow = "metric_calculator"
           /\ routed.decision = "finalize_report" <=> routed.flow = "report_finalizer"

\* C13: coverage bound: in every reachable state the number of computed
\* metrics is at most the number of metrics_requirements, so that
\* 0 <= coverage_rate <= 1.
C13_CoverageBound ==
    /\ Cardinality(DOMAIN state.computed_metrics) <= Len(state.metrics_requirements)
    /\ CoverageRate(state).num >= 0
    /\ CoverageRate(state).den > 0
    /\ CoverageRate(state).num <= CoverageRate(state).den

\* reached: a calculator execution after which every required metric of a
\* two-metric outline is computed (coverage_rate = 1)
C13_Witness ==
    /\ last_node = "metric_calculator"
    /\ Len(state.metrics_requirements) = 2
    /\ Cardinality(DOMAIN state.computed_metrics) = 2

\* C14: coverage_rate never decreases from one state of a run to the next,
\* and once a metric calculator execution has taken place no node removes a
\* key of computed_metrics or makes metrics_requirements longer.
C14_CoverageNonDecreasing ==
    [][/\ ~RateLt(CoverageRate(state'), CoverageRate(state).num, CoverageRate(state).den)
       /\ state.calculation_results # None
             => /\ DOMAIN state.computed_metrics \subseteq DOMAIN state'.computed_metrics
                /\ Len(state'.metrics_requirements) <= Len(state.metrics_requirements)]_vars

\* reached: a second calculator execution that computed the one metric the
\* first execution had left, raising the coverage from 1/2 to 1
C14_Witness ==
    /\ last_node = "metric_calculator"
    /\ state.calculation_results # None
    /\ state.calculation_results[1].failed_calculations = 0
    /\ state.calculation_results[1].successful_calculations = 1
    /\ Cardinality(DOMAIN state.computed_metrics) = 2

\* C15: whatever the engine answers, a metric calculator execution adds to
\* the keys of computed_metrics exactly the batch ids whose engine call
\* succeeded, stores for each of them the result of its (last) successful
\* call, and leaves every other entry as it was; a metric whose call failed
\* is not added.
C15_ComputedIsSucceeded ==
    node = "metric_calculator" =>
        \A outcomes \in [1..Len(CalculatorBatch(state)) -> EngineOutcomes] :
            LET batch == CalculatorBatch(state)
                after == _metric_calculator_node(state, outcomes)
                succeeded == {i \in EngineCalls(state, batch) :
                                 outcomes[i].kind = "success"}
                LastOf(id) == CHOOSE j \in succeeded :
                                 /\ batch[j] = id
                                 /\ \A k \in succeeded : batch[k] = id => k <= j
            IN  /\ DOMAIN after.computed_metrics =
                     DOMAIN state.computed_metrics \cup {batch[i] : i \in succeeded}
                /\ \A i \in succeeded :
                     after.computed_metrics[batch[i]] = outcomes[LastOf(batch[i])].result
                /\ \A id \in DOMAIN state.computed_metrics :
                     id \notin {batch[i] : i \in succeeded}
                        => /\ id \in DOMAIN after.computed_metrics
                           /\ after.computed_metrics[id] = state.computed_metrics[id]

\* reached: a calculator execution with a batch of two metrics of which one
\* was computed and the other failed
C15_Witness ==
    /\ last_node = "metric_calculator"
    /\ state.calculation_results # None
    /\ state.calculation_results[1].successful_calculations = 1
    /\ state.calculation_results[1].failed_calculations = 1
    /\ Cardinality(DOMAIN state.computed_metrics) = 1

\* C16: in the report every section's metric map has one entry per id of its
\* metrics_needed: computed_metrics[id] when the id is a key of
\* computed_metrics and the sentinel "data missing" otherwise (so a metric
\* that was never computed is the sentinel in every section naming it).
C16_SectionsRendered ==
    state.is_complete =>
        LET outline == state.outline_draft[1]
            report == state.report_draft[1]
        IN  /\ Len(report.sections) = Len(outline.sections)
            /\ \A i \in 1..Len(outline.sections) :
                 /\ DOMAIN report.sections[i].metrics =
                      Elems(outline.sections[i].metrics_needed)
                 /\ \A id \in Elems(outline.sections[i].metrics_needed) :
                      report.sections[i].metrics[id] =
                          IF id \in DOMAIN state.computed_metrics
                          THEN state.computed_metrics[id] ELSE DataMissing

\* reached: a report of two sections that both show the computed m1, the
\* second of which shows the sentinel for m2
C16_Witness ==
    /\ state.is_complete
    /\ Len(state.report_draft[1].sections) = 2
    /\ state.report_draft[1].sections[1].metrics["m1"] \in Results
    /\ state.report_draft[1].sections[2].metrics["m1"] \in Results
    /\ state.report_draft[1].sections[2].metrics["m2"] = DataMissing

\* C17: the report finalizer is terminal: no node executes after it, so no
\* step is taken from a state the report finalizer produced.
C17_FinalizerTerminal == [][last_node # "report_finalizer"]_vars

\* reached: the report finalizer has run and the run is over
C17_Witness ==
    /\ last_node = "report_finalizer"
    /\ node = "END"
    /\ state.is_complete

C19_CatalogFailureIsExplicit ==
    (available_knowledge = <<>> /\ node = "END")
        => /\ ~run_workflow(state).success
           /\ run_workflow(state).report = None

\* C20: an engine response with a status other than 200, or with a body
\* that is not JSON, is a failure: the metric calculator counts every such
\* call as a failed calculation and adds no metric to computed_metrics on
\* the strength of such a response.
C20_BadResponseIsFailure ==
    node = "metric_calculator" =>
        \A responses \in [1..Len(CalculatorBatch(state)) -> EngineResponses] :
            LET batch == CalculatorBatch(state)
                outcomes == [i \in 1..Len(batch) |-> calculate_metrics(responses[i])]
                after == _metric_calculator_node(state, outcomes)
                calls == EngineCalls(state, batch)
                bad == {i \in calls : BadResponse(responses[i])}
            IN  /\ \A i \in bad :
                     (\A j \in calls : batch[j] = batch[i] => j \in bad)
                        => (batch[i] \in DOMAIN after.computed_metrics
                               => batch[i] \in DOMAIN state.computed_metrics)
                /\ calls # {}
                     => after.calculation_results[1].failed_calculations
                            = Cardinality(bad)

\* C21: when all max_retries attempts of the outline generator fail, the
\* outline generator node still installs a default outline of exactly one
\* section, and outline_version is 1 afterwards.
C21_DefaultOutlineInstalled ==
    (node = "outline_generator" /\ state.outline_version = 0) =>
        \A attempts \in [1..max_retries -> {a \in AttemptResults : ~a.ok}] :
            LET after == _outline_generator_node(state, generate_report_outline(attempts))
            IN  /\ after.outline_draft # None
                /\ Len(after.outline_draft[1].sections) = 1
                /\ after.outline_version = 1

\* C22: outline_version never decreases: an outline generator execution that
\* installs an outline adds exactly 1 to it, and every other node execution
\* (an outline generator execution that installs nothing included) leaves
\* it unchanged.
C22_OutlineVersionMonotonic ==
    [][state'.outline_version =
          IF node = "outline_generator" /\ state'.outline_draft # state.outline_draft
          THEN state.outline_version + 1
          ELSE state.outline_version]_vars

\* reached: an outline installed by the second outline generator execution,
\* the first one having installed nothing
C22_Witness ==
    /\ last_node = "outline_generator"
    /\ state.outline_draft # None
    /\ state.outline_version = 1
    /\ state.errors = <<"outline">>

ConvertedOutline == generator.converted[1]

ReturnedOutline == generator.outline[1]

\* the metric names handed to the knowledge resolver
ResolverNames == {<<>>, NameA, NameB, NameMetricA}

\* C24: after the repair pass every section has a non-empty section_id (a
\* missing one at index i has become "sec_{i+1}"), every global metric has a
\* non-empty metric_id (a missing one at index i has become "metric_{i+1}"),
\* and every metrics_needed and dependencies field is a list.
C24_RepairComplete ==
    generator.stage = "returned" =>
        LET before == ConvertedOutline
            after == ReturnedOutline
        IN  /\ Len(after.sections) = Len(before.sections)
            /\ \A i \in 1..Len(after.sections) :
                /\ after.sections[i].section_id # <<>>
                /\ after.sections[i].section_id =
                     IF before.sections[i].section_id = <<>>
                     THEN <<"sec_", str(i)>>
                     ELSE before.sections[i].section_id
                /\ DOMAIN after.sections[i].metrics_needed =
                     1..Len(after.sections[i].metrics_needed)
            /\ Len(after.global_metrics) >= Len(before.global_metrics)
            /\ \A i \in 1..Len(after.global_metrics) :
                /\ after.global_metrics[i].metric_id # <<>>
                /\ i <= Len(before.global_metrics) =>
                     after.global_metrics[i].metric_id =
                        IF before.global_metrics[i].metric_id = <<>>
                        THEN <<"metric_", str(i)>>
                        ELSE before.global_metrics[i].metric_id
                /\ DOMAIN after.global_metrics[i].dependencies =
                     1..Len(after.global_metrics[i].dependencies)

\* an outline whose second section had no id and whose second metric had no
\* id, returned with sec_2 and metric_2
C24_Witness ==
    /\ generator.stage = "returned"
    /\ Len(ConvertedOutline.sections) = 2
    /\ ConvertedOutline.sections[2].section_id = <<>>
    /\ ReturnedOutline.sections[2].section_id = <<"sec_", "2">>
    /\ Len(ConvertedOutline.global_metrics) = 2
    /\ ConvertedOutline.global_metrics[1].metric_id = <<>>
    /\ ReturnedOutline.global_metrics[1].metric_id = <<"metric_", "1">>

\* C25: in the outline the generator returns (conversion, repair pass and
\* metric supplementation done) no two entries of global_metrics have the
\* same metric_id, whatever the language model's outline and the catalog.
C25_MetricIdsUnique ==
    generator.stage = "returned" =>
        \A i, j \in 1..Len(ReturnedOutline.global_metrics) :
            ReturnedOutline.global_metrics[i].metric_id =
                ReturnedOutline.global_metrics[j].metric_id => i = j

\* C26: in the outline the generator returns every identifier of every
\* section's metrics_needed is the metric_id of an entry of global_metrics,
\* also for the metrics the resolver mapped to a catalog id.
C26_NoDanglingReference ==
    generator.stage = "returned" =>
        \A s \in 1..Len(ReturnedOutline.sections) :
            Elems(ReturnedOutline.sections[s].metrics_needed)
                \subseteq Elems(MetricIdsOf(ReturnedOutline.global_metrics))

\* C27: the conversion creates exactly one MetricRequirement per distinct
\* metric name of the language model's outline, also for a name listed in
\* several sections or lists; its metric_id is the id the resolver returned
\* for the name, or the name itself when the resolver returned "".
C27_OneRequirementPerName ==
    generator.stage \in {"converted", "returned"} =>
        LET names == NamesInOrder(ConvertedOutline.sections)
            metrics == ConvertedOutline.global_metrics
        IN  /\ \A i \in 1..Len(metrics) : metrics[i].metric_name \in Elems(names)
            /\ \A name \in Elems(names) :
                /\ Cardinality({i \in 1..Len(metrics) :
                                   metrics[i].metric_name = name}) = 1
                /\ \A i \in 1..Len(metrics) :
                     metrics[i].metric_name = name =>
                        \E k \in 1..Len(names) :
                            /\ names[k] = name
                            /\ metrics[i].metric_id =
                                 IF generator.resolved[k] # <<>>
                                 THEN generator.resolved[k]
                                 ELSE name

\* C28: when some catalog entry has an id that starts with "metric-" and
\* equals metric_name once that prefix is cut off, the resolver returns the
\* first such entry in catalog order, whatever the language model would
\* answer and whatever the descriptions hold.
C28_ExactMatchFirst ==
    \A metric_name \in ResolverNames, llm \in LlmMatchAnswers(available_knowledge) :
        LET exact == {i \in 1..Len(available_knowledge) :
                         /\ startswith(available_knowledge[i].id)
                         /\ Tail(available_knowledge[i].id) = metric_name}
        IN  exact # {} =>
                _match_metric_to_knowledge(metric_name, available_knowledge, llm)
                    = available_knowledge[First(exact)].id

\* C29: the metric evaluator, run on a state with an outline, returns a state
\* whose metrics_requirements is outline_draft.global_metrics, whose
\* pending_metric_ids is the list of their metric_ids in the same order and
\* whose computed_metrics is empty; run on a state without an outline it
\* leaves the three fields as they are.
C29_EvaluatorPostCondition ==
    [][node' = "evaluated" =>
          IF state.outline_draft # None
          THEN /\ state'.metrics_requirements = state.outline_draft[1].global_metrics
               /\ state'.pending_metric_ids =
                    [i \in 1..Len(state.outline_draft[1].global_metrics) |->
                        state.outline_draft[1].global_metrics[i].metric_id]
               /\ state'.computed_metrics = EmptyDict
               /\ state'.outline_draft = state.outline_draft
          ELSE /\ state'.metrics_requirements = state.metrics_requirements
               /\ state'.pending_metric_ids = state.pending_metric_ids
               /\ state'.computed_metrics = state.computed_metrics]_vars

\* reached: the metric evaluator has reset a state with an outline of five
\* metrics
C29_Witness ==
    /\ node = "evaluated"
    /\ state.outline_draft # None
    /\ Len(state.pending_metric_ids) = 5
    /\ state.computed_metrics = EmptyDict

\* C30: within one metric calculator execution each metric_id is sent to the
\* Knowledge Engine at most once, also when the batch names it twice.
C30_OneDispatchPerInvocation ==
    node = "metric_calculator" =>
        \A id \in Elems(CalculatorBatch(state)) :
            Cardinality(CallsOf(state, CalculatorBatch(state), id)) <= 1

\* C36: the knowledge resolver returns "" or the id of an entry of the
\* catalog, for every metric name and every answer of the language model
\* (a text, or a failed call followed by the keyword match); with an empty
\* catalog it returns "".
C36_ResolverReturnsCatalogId ==
    /\ \A metric_name \in ResolverNames,
          llm \in LlmMatchAnswers(available_knowledge) :
        LET knowledge_id ==
                _match_metric_to_knowledge(metric_name, available_knowledge, llm)
        IN  /\ \/ knowledge_id = <<>>
               \/ \E i \in 1..Len(available_knowledge) :
                     available_knowledge[i].id = knowledge_id
            /\ available_knowledge = <<>> => knowledge_id = <<>>
    /\ \A k \in 1..Len(generator.resolved) :
        \/ generator.resolved[k] = <<>>
        \/ /\ available_knowledge # <<>>
           /\ \E i \in 1..Len(available_knowledge) :
                 available_knowledge[i].id = generator.resolved[k]

\* a conversion in which the resolver gave one name an id through the
\* language model or the keyword match, and gave another name ""
C36_Witness ==
    /\ generator.stage = "converted"
    /\ LET names == NamesInOrder(ConvertedOutline.sections)
       IN  /\ \E k \in 1..Len(names) :
                /\ generator.resolved[k] # <<>>
                /\ ExactMatches(names[k], available_knowledge) = {}
           /\ \E k \in 1..Len(names) : generator.resolved[k] = <<>>

\* C31: every node leaves the snapshot it received unchanged: once the node
\* has returned, the snapshot's messages, errors, plan_history,
\* pending_metric_ids and computed_metrics are what they were before the call.
C31_CopyOnWrite ==
    /\ node = "planning_node" =>
          \A resp \in OracleResponses :
              _planning_node_input(state, resp) = SnapshotBefore(state)
    /\ node = "outline_generator" =>
          \A res \in OutlineResults :
              _outline_generator_node_input(state, res) = SnapshotBefore(state)
    /\ node = "metric_evaluator" =>
          _metric_evaluator_node_input(state) = SnapshotBefore(state)
    /\ node = "metric_calculator" =>
          \A outcomes \in [1..Len(CalculatorBatch(state)) -> EngineOutcomes] :
              _metric_calculator_node_input(state, outcomes) = SnapshotBefore(state)
    /\ node = "report_finalizer" =>
          _report_finalizer_node_input(state) = SnapshotBefore(state)

C35_EmptyOutlineFinalizes ==
    /\ node = "END"
    /\ state.outline_draft # None
    /\ state.outline_draft[1].global_metrics = <<>>
    => /\ state.is_complete
       /\ state.report_draft # None
       /\ state.planning_step <= StepCeiling

====
